---- MODULE Spec2Model ----
(***************************************************************************)
(* A model of the euglenida command-line orchestration layer:              *)
(*   utils.run_command_with_output   (the process runner)                  *)
(*   preprocessing.preprocess        (setup invocations and the sweep)     *)
(*   quality_control.quality_control (the qc command)                      *)
(*   taxonomy.classify / rooted_tree (the taxonomy and tree commands)      *)
(* Paths and command tokens are strings; the lines a child writes are      *)
(* sequences of byte values, the text printed is a sequence of code        *)
(* points.                                                                 *)
(***************************************************************************)
EXTENDS Integers, Sequences, FiniteSets, TLC

VARIABLES
    args,                 \* the argparse.Namespace handed to the command
    fs,                   \* the paths that exist on the filesystem
    environ,              \* os.environ of this process
    env,                  \* run_command_with_output: the env it was given last
    pc,                   \* position of the command's control flow
    ret,                  \* how the command ended: a return value or an exception
    console,              \* what print() has written to stdout, in order
    trimming_parameters,  \* preprocess: the list of parameter tuples
    env_with_tmpdir,      \* preprocess: the mapping built by new_tmp_dir_env
    unit,                 \* preprocess: index of the tuple being run (0: setup)
    unit_paths,           \* filter_and_merge: the three artifact paths it computed
    step,                 \* call site of the current invocation
    command,              \* run_command_with_output: the command it was given
    launched,             \* the <<unit, step>> of every command handed to Popen, in order
    produced,             \* the lines the runner has read from its child so far
    rv,                   \* run_command_with_output: its return value
    child,                \* the child spawned last: running, lingering, exit0, exit1
    nOut,                 \* lines written by all children of this run
    faults                \* SubprocessErrors raised while reading

vars == <<args, fs, environ, env, unit_paths, pc, ret, console, trimming_parameters,
          env_with_tmpdir, unit, step, command, launched, produced, rv,
          child, nOut, faults>>

(***************************************************************************)
(* Bounds of the model.                                                    *)
(***************************************************************************)
MaxOut == 2        \* lines all children of one run write, in total
MaxFaults == 1     \* SubprocessErrors raised in one run

(***************************************************************************)
(* Python values.                                                          *)
(***************************************************************************)
None == "<None>"

\* f"{v}" of a str or of None
Str(v) == IF v = None THEN "None" ELSE v

Digit(d) == SubSeq("0123456789", d + 1, d + 1)

RECURSIVE NatToStr(_)
NatToStr(n) == IF n < 10 THEN Digit(n) ELSE NatToStr(n \div 10) \o Digit(n % 10)

\* f"{n}" of an int
IntToStr(n) == IF n < 0 THEN "-" \o NatToStr(-n) ELSE NatToStr(n)

\* str.rfind(ch) + 1: the last position of ch in s, 0 when absent
RECURSIVE RFind(_, _)
RFind(s, ch) ==
    IF Len(s) = 0 THEN 0
    ELSE IF SubSeq(s, Len(s), Len(s)) = ch THEN Len(s)
    ELSE RFind(SubSeq(s, 1, Len(s) - 1), ch)

(***************************************************************************)
(* pathlib.                                                                *)
(***************************************************************************)
\* dir / name
Join(dir, name) == dir \o "/" \o name

\* PurePath.name
PathName(p) == SubSeq(p, RFind(p, "/") + 1, Len(p))

\* PurePath.parent
PathParent(p) == IF RFind(p, "/") = 0 THEN "." ELSE SubSeq(p, 1, RFind(p, "/") - 1)

\* PurePath.stem: the name without its last suffix
PathStem(p) ==
    LET name == PathName(p)
        i == RFind(name, ".")
    IN IF 1 < i /\ i < Len(name) THEN SubSeq(name, 1, i - 1) ELSE name

\* PurePath.with_suffix(suffix)
WithSuffix(p, suffix) ==
    SubSeq(p, 1, Len(p) - Len(PathName(p))) \o PathStem(p) \o suffix

\* Path.resolve() of a relative path
Cwd == "/work"
Resolve(p) == Join(Cwd, p)

\* Path.mkdir(): the exception it raises, None when it creates the directory
MkdirFault(f, p) ==
    IF p \in f THEN "FileExistsError"
    ELSE IF PathParent(p) \notin f THEN "FileNotFoundError"
    ELSE None

\* Path.mkdir(): the filesystem after it
Mkdir(f, p) == IF MkdirFault(f, p) = None THEN f \cup {p} ELSE f

(***************************************************************************)
(* utils.py: the pure helpers.                                             *)
(***************************************************************************)
TmpdirVar == "TMPDIR"

\* new_tmp_dir_env: a copy of os.environ with TMPDIR set to the quoted,
\* resolved path
new_tmp_dir_env(new_path, ambient) ==
    [k \in DOMAIN ambient \cup {TmpdirVar} |->
        IF k = TmpdirVar THEN "'" \o Resolve(new_path) \o "'" ELSE ambient[k]]

\* bytes.decode(): UTF-8, for the one- and two-byte sequences the children of
\* the model write. A byte below 0x80 is its own code point; a lead byte
\* 0xC2..0xDF with a continuation byte 0x80..0xBF is one code point; any
\* other byte of 0x80 or more raises UnicodeDecodeError.
RECURSIVE Decodable(_)
Decodable(bytes) ==
    IF bytes = <<>> THEN TRUE
    ELSE IF bytes[1] < 128 THEN Decodable(Tail(bytes))
    ELSE /\ bytes[1] \in 194..223
         /\ Len(bytes) >= 2
         /\ bytes[2] \in 128..191
         /\ Decodable(Tail(Tail(bytes)))

RECURSIVE Decode(_)
Decode(bytes) ==
    IF bytes = <<>> THEN <<>>
    ELSE IF bytes[1] < 128 THEN <<bytes[1]>> \o Decode(Tail(bytes))
    ELSE <<(bytes[1] - 192) * 64 + (bytes[2] - 128)>> \o Decode(Tail(Tail(bytes)))

\* str.strip(): drops leading and trailing whitespace
Whitespace == {9, 10, 11, 12, 13, 28, 29, 30, 31, 32, 133, 160}

RECURSIVE LStrip(_)
LStrip(s) == IF s # <<>> /\ Head(s) \in Whitespace THEN LStrip(Tail(s)) ELSE s

RECURSIVE RStrip(_)
RStrip(s) ==
    IF s # <<>> /\ s[Len(s)] \in Whitespace
    THEN RStrip(SubSeq(s, 1, Len(s) - 1)) ELSE s

Strip(s) == RStrip(LStrip(s))

\* the line is decoded and printed as it came, print() adding a newline to
\* the one the line ends with
PrintedLineUnstripped(line) == [kind |-> "line", text |-> Decode(line)]

\* what line 43 prints for one line of the child
PrintedLine(line) == [kind |-> "line", text |-> Strip(Decode(line))]

\* the error line names the last token of the command
RunnerErrorLineLastToken(script_name, cmd) ==
    [kind |-> "error", script |-> script_name,
     msg |-> "critical error occured while running", what |-> cmd[Len(cmd)]]

\* the error line of lines 48-50
RunnerErrorLine(script_name, cmd) ==
    [kind |-> "error", script |-> script_name,
     msg |-> "critical error occured while running", what |-> cmd[1]]

\* print_args: a header, then one line per argument
RECURSIVE SetToSeq(_)
SetToSeq(S) ==
    IF S = {} THEN <<>>
    ELSE LET x == CHOOSE y \in S : TRUE IN <<x>> \o SetToSeq(S \ {x})

print_args(a, script_name) ==
    <<[kind |-> "args", what |-> script_name \o ": passed arguemnts:"]>>
    \o [i \in 1..Cardinality(DOMAIN a) |->
          [kind |-> "args", what |-> SetToSeq(DOMAIN a)[i]]]

(***************************************************************************)
(* preprocessing.py: the command builders.                                 *)
(***************************************************************************)
qiime_tools_import(qiime_path, input_path, output_path) ==
    <<qiime_path, "tools", "import",
      "--type", "SampleData[PairedEndSequencesWithQuality]",
      "--input-format", "PairedEndFastqManifestPhred33",
      "--input-path", input_path, "--output-path", output_path>>

qiime_demux_summarize(qiime_path, imported_reads_filepath, output_visualization_path) ==
    <<qiime_path, "demux", "summarize", "--i-data", imported_reads_filepath,
      "--o-visualization", output_visualization_path>>

ChimeraMethod == "consensus"

\* the forward and reverse truncation lengths change places
qiime_dada2_swapped(qiime_path, imported_reads_filepath, stats_output_filename, filtered_sequences_filename, summary_table_filename, truncate_forward_at, truncate_reverse_at, trim_forward_by, trim_reverse_by, truncate_threshold_quality, verbose) ==
    <<qiime_path, "dada2", "denoise-paired",
      "--i-demultiplexed-seqs", imported_reads_filepath,
      "--p-trunc-len-f", IntToStr(truncate_reverse_at),
      "--p-trunc-len-r", IntToStr(truncate_forward_at),
      "--p-trim-left-f", IntToStr(trim_forward_by),
      "--p-trim-left-r", IntToStr(trim_reverse_by),
      "--p-chimera-method", ChimeraMethod,
      "--p-trunc-q", IntToStr(truncate_threshold_quality),
      "--o-denoising-stats", stats_output_filename,
      "--o-representative-sequences", filtered_sequences_filename,
      "--o-table", summary_table_filename>>
    \o (IF verbose THEN <<"--verbose">> ELSE <<>>)

qiime_dada2(qiime_path, imported_reads_filepath, stats_output_filename, filtered_sequences_filename, summary_table_filename, truncate_forward_at, truncate_reverse_at, trim_forward_by, trim_reverse_by, truncate_threshold_quality, verbose) ==
    <<qiime_path, "dada2", "denoise-paired",
      "--i-demultiplexed-seqs", imported_reads_filepath,
      "--p-trunc-len-f", IntToStr(truncate_forward_at),
      "--p-trunc-len-r", IntToStr(truncate_reverse_at),
      "--p-trim-left-f", IntToStr(trim_forward_by),
      "--p-trim-left-r", IntToStr(trim_reverse_by),
      "--p-chimera-method", ChimeraMethod,
      "--p-trunc-q", IntToStr(truncate_threshold_quality),
      "--o-denoising-stats", stats_output_filename,
      "--o-representative-sequences", filtered_sequences_filename,
      "--o-table", summary_table_filename>>
    \o (IF verbose THEN <<"--verbose">> ELSE <<>>)

qiime_metadata_tabulate(qiime_path, input_stats_filename, output_stats_filename) ==
    <<qiime_path, "metadata", "tabulate", "--m-input-file", input_stats_filename,
      "--o-visualization", output_stats_filename>>

qiime_feature_table_summarize(qiime_path, input_table, output_table) ==
    <<qiime_path, "feature-table", "summarize", "--i-table", input_table,
      "--o-visualization", output_table>>

qiime_tools_export(qiime_path, input_path, output_dir) ==
    <<qiime_path, "tools", "export", "--input-path", input_path,
      "--output-path", output_dir>>

(***************************************************************************)
(* preprocessing.py: the names filter_and_merge derives from a tuple.      *)
(***************************************************************************)
\* a slip in the f-string: {trim_f} where {trim_r} belongs
ParamSuffixTrimTwice(t) ==
    IntToStr(t[1]) \o "_" \o IntToStr(t[2]) \o "_" \o IntToStr(t[3]) \o "_"
    \o IntToStr(t[3]) \o "_" \o IntToStr(t[5])

\* the f-string part {trunc_f}_{trunc_r}_{trim_f}_{trim_r}_{trunc_q}
ParamSuffix(t) ==
    IntToStr(t[1]) \o "_" \o IntToStr(t[2]) \o "_" \o IntToStr(t[3]) \o "_"
    \o IntToStr(t[4]) \o "_" \o IntToStr(t[5])

filtering_stats_path(output_dir, t) ==
    Join(output_dir, "filtering_stats_" \o ParamSuffix(t) \o ".qza")

filtered_sequences_path(output_dir, t) ==
    Join(output_dir, "filtered_reads_" \o ParamSuffix(t) \o ".qza")

filtering_table_path(output_dir, t) ==
    Join(output_dir, "filtering_table_" \o ParamSuffix(t) \o ".qza")

\* the table is exported into a directory named after the stats artifact
filtering_table_dir_of_stats(output_dir, t) ==
    Join(output_dir, PathStem(filtering_stats_path(output_dir, t)))

filtering_table_dir(output_dir, t) ==
    Join(output_dir, PathStem(filtering_table_path(output_dir, t)))

filtered_sequences_dir(output_dir, t) ==
    Join(output_dir, PathStem(filtered_sequences_path(output_dir, t)))

\* the names carry the number of commands launched so far
ArtifactPathsWithCount(output_dir, t) ==
    [filtering_stats_path |->
        WithSuffix(filtering_stats_path(output_dir, t),
                   "_" \o IntToStr(Len(launched)) \o ".qza"),
     filtered_sequences_path |->
        WithSuffix(filtered_sequences_path(output_dir, t),
                   "_" \o IntToStr(Len(launched)) \o ".qza"),
     filtering_table_path |->
        WithSuffix(filtering_table_path(output_dir, t),
                   "_" \o IntToStr(Len(launched)) \o ".qza")]

\* the three local variables of lines 208-223
ArtifactPaths(output_dir, t) ==
    [filtering_stats_path |-> filtering_stats_path(output_dir, t),
     filtered_sequences_path |-> filtered_sequences_path(output_dir, t),
     filtering_table_path |-> filtering_table_path(output_dir, t)]

\* every path filter_and_merge derives for one tuple
UnitPaths(output_dir, t) ==
    { filtering_stats_path(output_dir, t),
      filtered_sequences_path(output_dir, t),
      filtering_table_path(output_dir, t),
      WithSuffix(filtering_stats_path(output_dir, t), ".qzv"),
      WithSuffix(filtering_table_path(output_dir, t), ".qzv"),
      filtering_table_dir(output_dir, t),
      filtered_sequences_dir(output_dir, t) }

(***************************************************************************)
(* preprocessing.py: itertools.product of the five parameter lists.        *)
(***************************************************************************)
\* [x + [y] for x in result for y in pool]
RECURSIVE Extend(_, _)
Extend(result, pool) ==
    IF result = <<>> THEN <<>>
    ELSE [j \in 1..Len(pool) |-> Append(Head(result), pool[j])]
         \o Extend(Tail(result), pool)

\* itertools.product(*pools): result = [[]], then one Extend per pool
RECURSIVE Product(_)
Product(pools) ==
    IF pools = <<>> THEN << <<>> >>
    ELSE Extend(Product(SubSeq(pools, 1, Len(pools) - 1)), pools[Len(pools)])

\* the positional pairing of the first four lists, crossed with the fifth
PairwiseThenCross(a) ==
    Extend([k \in 1..Len(a.trunc_len_f) |->
              <<a.trunc_len_f[k], a.trunc_len_r[k], a.trim_left_f[k], a.trim_left_r[k]>>],
           a.trunc_q)

\* lines 167-175
TrimmingParameters(a) ==
    Product(<<a.trunc_len_f, a.trunc_len_r, a.trim_left_f, a.trim_left_r, a.trunc_q>>)

(***************************************************************************)
(* Inputs: the argument namespaces parse_args can produce and the          *)
(* filesystems a command can start in.                                     *)
(***************************************************************************)
ScriptName == "euglenins.py"
NArgs == 2

QiimePaths == {None, "/opt/bin/qiime"}
FastqcPaths == {None, "/opt/bin/fastqc"}
MultiqcPaths == {None, "/opt/bin/multiqc"}

\* the five parameter lists: the defaults, one value each given twice,
\* lists with some repeated values, and lists whose values all differ
SweepInputs ==
    { sw \in
    { [trunc_len_f |-> <<200, 200>>, trunc_len_r |-> <<200, 200>>,
       trim_left_f |-> <<10, 10>>, trim_left_r |-> <<10, 10>>, trunc_q |-> <<15, 15>>],
      [trunc_len_f |-> <<200, 200>>, trunc_len_r |-> <<180, 180>>,
       trim_left_f |-> <<10, 10>>, trim_left_r |-> <<5, 5>>, trunc_q |-> <<15, 15>>],
      [trunc_len_f |-> <<200, 210>>, trunc_len_r |-> <<200, 210>>,
       trim_left_f |-> <<10, 10>>, trim_left_r |-> <<10, 10>>, trunc_q |-> <<15, 20>>],
      [trunc_len_f |-> <<1, 11>>, trunc_len_r |-> <<11, 1>>,
       trim_left_f |-> <<0, 10>>, trim_left_r |-> <<10, 0>>, trunc_q |-> <<2, 20>>] } :
      \A k \in DOMAIN sw : Len(sw[k]) = NArgs }

Flags == [verbose : BOOLEAN, debug : BOOLEAN]

\* --threads of preprocess: one worker, the least limit there is (preprocess
\* reads args.threads nowhere but in the commented-out lines 302-305)
Threads == {1}

PreprocessArgs ==
    { fl @@ sw @@ [command |-> "preprocess", qiime_path |-> q,
                   qiime2_manifest |-> "manifest.csv", tmp_dir |-> "data/tmp",
                   outdir |-> "results/qiime2", threads |-> th] :
        fl \in Flags, sw \in SweepInputs, q \in QiimePaths, th \in Threads }

QcInputFiles == { <<>>, <<"a.fastq">>, <<"a.fastq", "b.fastq">> }

QcArgs ==
    { fl @@ [command |-> "qc", input_files |-> fi, outdir |-> "results",
             fastqc_dirname |-> "fastqc", multiqc_dirname |-> "multiqc",
             fastqc_path |-> fp, multiqc_path |-> mp, threads |-> 2] :
        fl \in Flags, fi \in QcInputFiles, fp \in FastqcPaths, mp \in MultiqcPaths }

TaxonomyArgs ==
    { fl @@ [command |-> "taxonomy", classifier |-> "classifier.qza",
             input_sequences |-> "seqs.qza", input_table |-> "table.qza",
             qiime_path |-> q, tmp_dir |-> "data/tmp",
             outdir |-> "results/classification", metadata |-> m] :
        fl \in Flags, q \in QiimePaths, m \in {None, "metadata.tsv"} }

TreeArgs ==
    { fl @@ [command |-> "tree", input_sequences |-> "seqs.qza",
             qiime_path |-> q, tmp_dir |-> "data/tmp",
             outdir |-> "results/classification"] :
        fl \in Flags, q \in QiimePaths }

\* a directory with its parent, its parent alone, or neither
DirChain(p) == { {}, {PathParent(p)}, {PathParent(p), p} }

\* the export directories of the first tuple, left by an earlier run
FirstExportDirs(a) ==
    { filtering_table_dir(a.outdir, TrimmingParameters(a)[1]),
      filtered_sequences_dir(a.outdir, TrimmingParameters(a)[1]) }

\* the files and directories a command may find when it starts
InitialFs(a) ==
    IF a.command = "preprocess" THEN
        UNION { { {"."} \cup o \cup t \cup m \cup e :
                    t \in DirChain(a.tmp_dir), m \in SUBSET {a.qiime2_manifest},
                    e \in IF a.outdir \in o THEN SUBSET FirstExportDirs(a) ELSE {{}} } :
                o \in DirChain(a.outdir) }
    ELSE IF a.command = "qc" THEN
        { {"."} \cup o \cup i :
            o \in { {}, {a.outdir}, {a.outdir, Join(a.outdir, a.fastqc_dirname)},
                    {a.outdir, Join(a.outdir, a.fastqc_dirname),
                     Join(a.outdir, a.multiqc_dirname)} },
            i \in SUBSET { a.input_files[k] : k \in 1..Len(a.input_files) } }
    ELSE IF a.command = "taxonomy" THEN
        { {"."} \cup o \cup t \cup i :
            o \in DirChain(a.outdir), t \in DirChain(a.tmp_dir),
            i \in SUBSET {a.classifier, a.input_sequences, a.input_table, "metadata.tsv"} }
    ELSE
        { {"."} \cup o \cup t \cup i :
            o \in DirChain(a.outdir), t \in DirChain(a.tmp_dir),
            i \in SUBSET {a.input_sequences} }

AmbientEnviron == [PATH |-> "/usr/bin", TMPDIR |-> "/tmp"]

\* the lines a child may write: a two-byte character (U+00E9), " b " padded
\* with blanks, and a byte that is not UTF-8; each ends with a newline
Lines == { <<195, 169, 10>>, <<32, 98, 32, 10>>, <<255, 10>> }

Init ==
    /\ args \in PreprocessArgs \cup QcArgs \cup TaxonomyArgs \cup TreeArgs
    /\ fs \in InitialFs(args)
    /\ environ = AmbientEnviron
    /\ env = <<>>
    /\ pc = "entry"
    /\ ret = [kind |-> "running"]
    /\ console = <<>>
    /\ trimming_parameters = <<>>
    /\ env_with_tmpdir = <<>>
    /\ unit = 0
    /\ unit_paths = <<>>
    /\ step = "none"
    /\ command = <<>>
    /\ launched = <<>>
    /\ produced = <<>>
    /\ rv = <<>>
    /\ child = "none"
    /\ nOut = 0
    /\ faults = 0

(***************************************************************************)
(* How a command ends.                                                     *)
(***************************************************************************)
Return(code) == [kind |-> "return", code |-> code]
Raise(exc) == [kind |-> "raise", exc |-> exc]

ErrorLine(msg, what) ==
    [kind |-> "error", script |-> ScriptName, msg |-> msg, what |-> what]

\* the lines are printed whatever the flags
VerbosityAlways(a) == TRUE

Verbosity(a) == a.verbose \/ a.debug

(***************************************************************************)
(* preprocessing.preprocess, lines 140-203.                                *)
(***************************************************************************)
imported_reads_artifact_path(a) == Join(a.outdir, "reads.qza")

import_command(a) ==
    qiime_tools_import(a.qiime_path, a.qiime2_manifest, imported_reads_artifact_path(a))

demux_summarization_command(a) ==
    qiime_demux_summarize(a.qiime_path, imported_reads_artifact_path(a),
                          WithSuffix(imported_reads_artifact_path(a), ".qzv"))

\* lines 141-155: print the arguments, check the executable and the manifest
PreprocessValidate ==
    /\ pc = "entry"
    /\ args.command = "preprocess"
    /\ LET shown == IF Verbosity(args) THEN console \o print_args(args, ScriptName)
                    ELSE console
       IN IF args.qiime_path = None
          THEN /\ console' = Append(shown,
                       ErrorLine("could not find qiime2 executable in $PATH", ""))
               /\ ret' = Return(1)
               /\ pc' = "done"
          ELSE IF args.qiime2_manifest \notin fs
          THEN /\ console' = Append(shown,
                       ErrorLine("No such file or directory!", args.qiime2_manifest))
               /\ ret' = Return(1)
               /\ pc' = "done"
          ELSE /\ console' = shown
               /\ ret' = ret
               /\ pc' = "setup"
    /\ UNCHANGED <<args, fs, environ, env, unit_paths, trimming_parameters, env_with_tmpdir, unit,
                   step, command, launched, produced, rv, child, nOut, faults>>

\* lines 157-192: the output directory, the tuples, the temp directory, the
\* environment and the two setup commands
PreprocessSetup ==
    /\ pc = "setup"
    /\ args.command = "preprocess"
    /\ LET outFault == IF args.outdir \in fs THEN None ELSE MkdirFault(fs, args.outdir)
           fs1 == IF args.outdir \in fs THEN fs ELSE Mkdir(fs, args.outdir)
           tmpFault == IF args.tmp_dir \in fs1 THEN None ELSE MkdirFault(fs1, args.tmp_dir)
           fs2 == IF args.tmp_dir \in fs1 THEN fs1 ELSE Mkdir(fs1, args.tmp_dir)
       IN IF outFault # None
          THEN /\ ret' = Raise(outFault)
               /\ pc' = "done"
               /\ UNCHANGED <<fs, trimming_parameters, env_with_tmpdir, step, command>>
          ELSE IF tmpFault # None
          THEN /\ ret' = Raise(tmpFault)
               /\ pc' = "done"
               /\ fs' = fs1
               /\ trimming_parameters' = TrimmingParameters(args)
               /\ UNCHANGED <<env_with_tmpdir, step, command>>
          ELSE /\ fs' = fs2
               /\ trimming_parameters' = TrimmingParameters(args)
               /\ env_with_tmpdir' = new_tmp_dir_env(args.tmp_dir, environ)
               /\ command' = import_command(args)
               /\ step' = "import"
               /\ pc' = "call"
               /\ ret' = ret
    /\ UNCHANGED <<args, environ, env, unit_paths, console, unit, launched, produced, rv, child,
                   nOut, faults>>

(***************************************************************************)
(* utils.run_command_with_output, lines 31-51.                             *)
(***************************************************************************)
\* the runner gives up on a child whose stream is still open
LeavingOrTimedOut == {"exit0", "exit1", "lingering", "running"}

\* what the child can be when its stdout is closed or the runner leaves it:
\* terminated with status 0 or 1, or still running
Leaving == {"exit0", "exit1", "lingering"}

\* the units are given os.environ, the setup commands the built mapping
RunnerEnvAmbientInUnits(site, built) ==
    IF site \in {"import", "demux"} THEN built ELSE environ

\* the env argument of the call of the runner at a call site: at each of the
\* seven (preprocessing.py lines 196, 202, 242, 258, 264, 287, 293) it is
\* env_with_tmpdir
RunnerEnv(site, built) == built

\* lines 34-39: Popen spawns the child with the command and the env it was
\* given, or raises OSError outside the try
Popen ==
    /\ pc = "call"
    /\ args.command = "preprocess"
    /\ \E spawned \in BOOLEAN :
         IF spawned
         THEN /\ pc' = "read"
              /\ child' = "running"
              /\ ret' = ret
         ELSE /\ pc' = "done"
              /\ ret' = Raise("OSError")
              /\ child' = child
    /\ launched' = Append(launched, <<unit, step>>)
    /\ env' = RunnerEnv(step, env_with_tmpdir)
    /\ UNCHANGED <<args, fs, environ, unit_paths, console, trimming_parameters, env_with_tmpdir,
                   unit, step, command, produced, rv, nOut, faults>>

\* lines 41-43: one line of the child is read, and printed when verbose or debug
ReadLine ==
    /\ pc = "read"
    /\ nOut < MaxOut
    /\ \E line \in Lines :
         /\ produced' = Append(produced, line)
         /\ IF ~Verbosity(args)
            THEN UNCHANGED <<console, pc, ret>>
            ELSE IF Decodable(line)
            THEN /\ console' = Append(console, PrintedLine(line))
                 /\ UNCHANGED <<pc, ret>>
            ELSE /\ ret' = Raise("UnicodeDecodeError")
                 /\ pc' = "done"
                 /\ UNCHANGED console
    /\ nOut' = nOut + 1
    /\ UNCHANGED <<args, fs, environ, env, unit_paths, trimming_parameters, env_with_tmpdir, unit,
                   step, command, launched, rv, child, faults>>

\* lines 44-51: a SubprocessError raised in the loop is re-raised when verbose
\* or debug, and otherwise reported with one line and the return value 1
ReadFault ==
    /\ pc = "read"
    /\ faults < MaxFaults
    /\ faults' = faults + 1
    /\ IF Verbosity(args)
       THEN /\ ret' = Raise("SubprocessError")
            /\ pc' = "done"
            /\ UNCHANGED <<console, rv, child, produced>>
       ELSE /\ console' = Append(console, RunnerErrorLine(ScriptName, command))
            /\ rv' = <<1>>
            /\ pc' = "returned"
            /\ child' \in Leaving
            /\ produced' = <<>>
            /\ ret' = ret
    /\ UNCHANGED <<args, fs, environ, env, unit_paths, trimming_parameters, env_with_tmpdir, unit,
                   step, command, launched, nOut>>

\* the runner returns 1 for a child that exited with a non-zero status
ReturnAtEOFByStatus(status) == IF status = "exit1" THEN <<1>> ELSE <<>>

\* lines 40-51 when the loop ends without a fault: the function falls off its
\* end and returns None, whatever became of the child
ReturnAtEOF(status) == <<>>

\* line 41 at the end of the stream: the loop ends and the function returns
\* None, without waiting for the child and without reading its exit status
ReadEOF ==
    /\ pc = "read"
    /\ child' \in Leaving
    /\ rv' = ReturnAtEOF(child')
    /\ pc' = "returned"
    /\ produced' = <<>>
    /\ UNCHANGED <<args, fs, environ, env, unit_paths, ret, console, trimming_parameters,
                   env_with_tmpdir, unit, step, command, launched, nOut, faults>>

\* a child that outlived its stdout terminates
ChildExit ==
    /\ child = "lingering"
    /\ child' \in {"exit0", "exit1"}
    /\ UNCHANGED <<args, fs, environ, env, unit_paths, pc, ret, console, trimming_parameters,
                   env_with_tmpdir, unit, step, command, launched, produced, rv,
                   nOut, faults>>

(***************************************************************************)
(* preprocessing.preprocess, lines 194-309: the two setup invocations,     *)
(* then filter_and_merge for each tuple.                                   *)
(***************************************************************************)
dada2_command(a, t) ==
    qiime_dada2(a.qiime_path, imported_reads_artifact_path(a),
                filtering_stats_path(a.outdir, t), filtered_sequences_path(a.outdir, t),
                filtering_table_path(a.outdir, t),
                t[1], t[2], t[3], t[4], t[5], a.verbose)

filtering_stats_command(a, t) ==
    qiime_metadata_tabulate(a.qiime_path, filtering_stats_path(a.outdir, t),
                            WithSuffix(filtering_stats_path(a.outdir, t), ".qzv"))

table_visualiztion_command(a, t) ==
    qiime_feature_table_summarize(a.qiime_path, filtering_table_path(a.outdir, t),
                                  WithSuffix(filtering_table_path(a.outdir, t), ".qzv"))

table_export_command(a, t) ==
    qiime_tools_export(a.qiime_path, filtering_table_path(a.outdir, t),
                       filtering_table_dir(a.outdir, t))

sequences_export_command(a, t) ==
    qiime_tools_export(a.qiime_path, filtered_sequences_path(a.outdir, t),
                       filtered_sequences_dir(a.outdir, t))

\* the call sites of run_command_with_output in preprocess (lines 195, 201)
\* and in filter_and_merge (lines 241, 257, 263, 286, 292), in program order
CallSites ==
    <<"import", "demux", "dada2", "tabulate", "summarize", "export_table",
      "export_sequences">>

\* the import is called again where the demux summary belongs
StepAfterImportAgain(s) ==
    IF s = "import" THEN "import"
    ELSE CallSites[(CHOOSE i \in DOMAIN CallSites : CallSites[i] = s) + 1]

\* the table summary is called where the stats tabulation belongs
StepAfterSummarizeFirst(s) ==
    IF s = "dada2" THEN "summarize"
    ELSE CallSites[(CHOOSE i \in DOMAIN CallSites : CallSites[i] = s) + 1]

\* a call the runner reported failed is made again
StepAfterRetryFailed(s) ==
    IF rv = <<1>> THEN s
    ELSE CallSites[(CHOOSE i \in DOMAIN CallSites : CallSites[i] = s) + 1]

\* filter_and_merge gives up the middle of a unit when a call is reported
\* failed, and goes to its last call
StepAfterSkipOnFailure(s) ==
    IF rv = <<1>> /\ s \in {"dada2", "tabulate", "summarize"} THEN "export_sequences"
    ELSE CallSites[(CHOOSE i \in DOMAIN CallSites : CallSites[i] = s) + 1]

\* the call site that follows call site s in the program text
StepAfter(s) == CallSites[(CHOOSE i \in DOMAIN CallSites : CallSites[i] = s) + 1]

\* the caller goes on while the runner still reads the child it spawned
ReturnedOrReading(s) ==
    pc \in {"returned", "read"} /\ args.command = "preprocess" /\ step = s

\* preprocess returns 1 after the loop
SweepExitCodeOne(last) == 1

\* preprocess passes on the value the last runner call returned
SweepExitCodeOfRunner(last) == IF last = <<1>> THEN 1 ELSE 0

\* line 309: after the loop preprocess returns 0; the values the runner
\* calls returned (lines 195-293) were never bound to a name
SweepExitCode(last) == 0

\* the runner has returned to its caller at call site s
Returned(s) == pc = "returned" /\ args.command = "preprocess" /\ step = s

\* lines 198-201: after the import, the demux summary
ImportReturned ==
    /\ Returned("import")
    /\ command' = demux_summarization_command(args)
    /\ step' = StepAfter("import")
    /\ pc' = "call"
    /\ UNCHANGED <<args, fs, environ, env, unit_paths, ret, console, trimming_parameters,
                   env_with_tmpdir, unit, launched, produced, rv, child, nOut,
                   faults>>

\* lines 296-307 and 208-241: the loop starts; filter_and_merge of the first
\* tuple builds its paths and its dada2 command
DemuxReturned ==
    /\ Returned("demux")
    /\ IF trimming_parameters = <<>>
       THEN /\ ret' = Return(SweepExitCode(rv))
            /\ pc' = "done"
            /\ UNCHANGED <<unit, unit_paths, step, command>>
       ELSE /\ unit' = 1
            /\ unit_paths' = ArtifactPaths(args.outdir, trimming_parameters[1])
            /\ command' = dada2_command(args, trimming_parameters[1])
            /\ step' = StepAfter("demux")
            /\ pc' = "call"
            /\ ret' = ret
    /\ UNCHANGED <<args, fs, environ, env, console, trimming_parameters,
                   env_with_tmpdir, launched, produced, rv, child, nOut, faults>>

\* lines 245-257: after dada2, the stats tabulation
DenoiseReturned ==
    /\ Returned("dada2")
    /\ command' = filtering_stats_command(args, trimming_parameters[unit])
    /\ step' = StepAfter("dada2")
    /\ pc' = "call"
    /\ UNCHANGED <<args, fs, environ, env, unit_paths, ret, console, trimming_parameters,
                   env_with_tmpdir, unit, launched, produced, rv, child, nOut,
                   faults>>

\* lines 260-263: after the tabulation, the table summary
TabulateReturned ==
    /\ Returned("tabulate")
    /\ command' = table_visualiztion_command(args, trimming_parameters[unit])
    /\ step' = StepAfter("tabulate")
    /\ pc' = "call"
    /\ UNCHANGED <<args, fs, environ, env, unit_paths, ret, console, trimming_parameters,
                   env_with_tmpdir, unit, launched, produced, rv, child, nOut,
                   faults>>

\* the filesystem after the two mkdir calls of lines 269 and 279
ExportDirsSkipSecond(f, a, t) == Mkdir(f, filtering_table_dir(a.outdir, t))

ExportDirsMade(f, a, t) ==
    Mkdir(Mkdir(f, filtering_table_dir(a.outdir, t)), filtered_sequences_dir(a.outdir, t))

\* mkdir(exist_ok=True, parents=True): the two calls never raise
ExportDirsFaultNever(f, a, t) == None

\* the exception the two mkdir calls raise, None when both succeed
ExportDirsFault(f, a, t) ==
    IF MkdirFault(f, filtering_table_dir(a.outdir, t)) # None
    THEN MkdirFault(f, filtering_table_dir(a.outdir, t))
    ELSE MkdirFault(Mkdir(f, filtering_table_dir(a.outdir, t)),
                    filtered_sequences_dir(a.outdir, t))

\* lines 267-287: after the summary, the two export directories are made
\* (mkdir raises when one exists) and the table export follows
SummarizeReturned ==
    /\ Returned("summarize")
    /\ LET t == trimming_parameters[unit]
       IN IF ExportDirsFault(fs, args, t) # None
          THEN /\ ret' = Raise(ExportDirsFault(fs, args, t))
               /\ pc' = "done"
               /\ fs' = IF MkdirFault(fs, filtering_table_dir(args.outdir, t)) # None
                        THEN fs ELSE Mkdir(fs, filtering_table_dir(args.outdir, t))
               /\ UNCHANGED <<command, step>>
          ELSE /\ fs' = ExportDirsMade(fs, args, t)
               /\ command' = table_export_command(args, t)
               /\ step' = StepAfter("summarize")
               /\ pc' = "call"
               /\ ret' = ret
    /\ UNCHANGED <<args, environ, env, unit_paths, console, trimming_parameters, env_with_tmpdir,
                   unit, launched, produced, rv, child, nOut, faults>>

\* lines 289-293: after the table export, the sequences export
TableExportReturned ==
    /\ Returned("export_table")
    /\ command' = sequences_export_command(args, trimming_parameters[unit])
    /\ step' = StepAfter("export_table")
    /\ pc' = "call"
    /\ UNCHANGED <<args, fs, environ, env, unit_paths, ret, console, trimming_parameters,
                   env_with_tmpdir, unit, launched, produced, rv, child, nOut,
                   faults>>

\* lines 306-309: filter_and_merge returns; the loop takes the next tuple, or
\* preprocess returns 0
SequencesExportReturned ==
    /\ Returned("export_sequences")
    /\ IF unit < Len(trimming_parameters)
       THEN /\ unit' = unit + 1
            /\ unit_paths' = ArtifactPaths(args.outdir, trimming_parameters[unit + 1])
            /\ command' = dada2_command(args, trimming_parameters[unit + 1])
            /\ step' = "dada2"
            /\ pc' = "call"
            /\ ret' = ret
       ELSE /\ ret' = Return(SweepExitCode(rv))
            /\ pc' = "done"
            /\ UNCHANGED <<unit, unit_paths, step, command>>
    /\ UNCHANGED <<args, fs, environ, env, console, trimming_parameters,
                   env_with_tmpdir, launched, produced, rv, child, nOut, faults>>

(***************************************************************************)
(* quality_control.quality_control.                                        *)
(***************************************************************************)
fastqc_dir(a) == Join(a.outdir, a.fastqc_dirname)
multiqc_dir(a) == Join(a.outdir, a.multiqc_dirname)

\* lines 44-52
fastqc_command(a) ==
    <<Str(a.fastqc_path), "--nogroup", "--threads", IntToStr(a.threads)>>
    \o a.input_files \o <<"--outdir", fastqc_dir(a)>>

\* the first path of a list that does not exist, None when all exist
RECURSIVE FirstMissing(_, _)
FirstMissing(files, f) ==
    IF files = <<>> THEN None
    ELSE IF Head(files) \notin f THEN Head(files)
    ELSE FirstMissing(Tail(files), f)

\* p.mkdir() unless p.exists()
Ensure(f, p) == IF p \in f THEN f ELSE Mkdir(f, p)
EnsureFault(f, p) == IF p \in f THEN None ELSE MkdirFault(f, p)

\* lines 9-21: print the arguments when verbose, check the input files
QcValidate ==
    /\ pc = "entry"
    /\ args.command = "qc"
    /\ LET shown == IF args.verbose THEN console \o print_args(args, ScriptName)
                    ELSE console
           missing == FirstMissing(args.input_files, fs)
       IN IF missing # None
          THEN /\ console' = Append(shown, ErrorLine("No such file or directory!", missing))
               /\ ret' = Return(1)
               /\ pc' = "done"
          ELSE /\ console' = shown
               /\ ret' = ret
               /\ pc' = "setup"
    /\ UNCHANGED <<args, fs, environ, env, unit_paths, trimming_parameters, env_with_tmpdir, unit,
                   step, command, launched, produced, rv, child, nOut, faults>>

\* lines 23-53: the output, fastqc and multiqc directories, then the fastqc
\* command; the executable paths are not looked at
QcSetup ==
    /\ pc = "setup"
    /\ args.command = "qc"
    /\ LET fs1 == Ensure(fs, args.outdir)
           fs2 == Ensure(fs1, fastqc_dir(args))
           fs3 == Ensure(fs2, multiqc_dir(args))
           fault == IF EnsureFault(fs, args.outdir) # None
                    THEN EnsureFault(fs, args.outdir)
                    ELSE IF EnsureFault(fs1, fastqc_dir(args)) # None
                    THEN EnsureFault(fs1, fastqc_dir(args))
                    ELSE EnsureFault(fs2, multiqc_dir(args))
       IN IF fault # None
          THEN /\ ret' = Raise(fault)
               /\ pc' = "done"
               /\ fs' = fs3
               /\ UNCHANGED <<command, step>>
          ELSE /\ fs' = fs3
               /\ command' = fastqc_command(args)
               /\ step' = "fastqc"
               /\ pc' = "call"
               /\ ret' = ret
    /\ UNCHANGED <<args, environ, env, unit_paths, console, trimming_parameters, env_with_tmpdir,
                   unit, launched, produced, rv, child, nOut, faults>>

\* line 54: run_command_with_output is called with four arguments for its
\* five parameters; the call raises TypeError before its body runs
QcCall ==
    /\ pc = "call"
    /\ args.command = "qc"
    /\ ret' = Raise("TypeError")
    /\ pc' = "done"
    /\ UNCHANGED <<args, fs, environ, env, unit_paths, console, trimming_parameters, env_with_tmpdir,
                   unit, step, command, launched, produced, rv, child, nOut, faults>>

(***************************************************************************)
(* taxonomy.classify and taxonomy.rooted_tree.                             *)
(***************************************************************************)
\* classify, lines 143-174: print the arguments when verbose, check the
\* executable, the classifier, the sequences and the table
ClassifyValidate ==
    /\ pc = "entry"
    /\ args.command = "taxonomy"
    /\ LET shown == IF args.verbose THEN console \o print_args(args, ScriptName)
                    ELSE console
           missing == FirstMissing(<<args.classifier, args.input_sequences,
                                     args.input_table>>, fs)
       IN IF args.qiime_path = None
          THEN /\ console' = Append(shown,
                       ErrorLine("could not find qiime2 executable in $PATH", ""))
               /\ ret' = Return(1)
               /\ pc' = "done"
          ELSE IF missing # None
          THEN /\ console' = Append(shown, ErrorLine("No such file or directory!", missing))
               /\ ret' = Return(1)
               /\ pc' = "done"
          ELSE /\ console' = shown
               /\ ret' = ret
               /\ pc' = "setup"
    /\ UNCHANGED <<args, fs, environ, env, unit_paths, trimming_parameters, env_with_tmpdir, unit,
                   step, command, launched, produced, rv, child, nOut, faults>>

\* rooted_tree, lines 235-250: print the arguments when verbose, check the
\* executable and the sequences
RootedTreeValidate ==
    /\ pc = "entry"
    /\ args.command = "tree"
    /\ LET shown == IF args.verbose THEN console \o print_args(args, ScriptName)
                    ELSE console
       IN IF args.qiime_path = None
          THEN /\ console' = Append(shown,
                       ErrorLine("could not find qiime2 executable in $PATH", ""))
               /\ ret' = Return(1)
               /\ pc' = "done"
          ELSE IF args.input_sequences \notin fs
          THEN /\ console' = Append(shown,
                       ErrorLine("No such file or directory!", args.input_sequences))
               /\ ret' = Return(1)
               /\ pc' = "done"
          ELSE /\ console' = shown
               /\ ret' = ret
               /\ pc' = "setup"
    /\ UNCHANGED <<args, fs, environ, env, unit_paths, trimming_parameters, env_with_tmpdir, unit,
                   step, command, launched, produced, rv, child, nOut, faults>>

\* the output and temp directories are made when absent; then
\* utils.change_tmp_dir, which utils does not define, raises AttributeError
TmpDirSetup ==
    /\ pc = "setup"
    /\ LET fs1 == Ensure(fs, args.outdir)
           fs2 == Ensure(fs1, args.tmp_dir)
       IN /\ fs' = fs2
          /\ ret' = IF EnsureFault(fs, args.outdir) # None
                    THEN Raise(EnsureFault(fs, args.outdir))
                    ELSE IF EnsureFault(fs1, args.tmp_dir) # None
                    THEN Raise(EnsureFault(fs1, args.tmp_dir))
                    ELSE Raise("AttributeError")
          /\ pc' = "done"
    /\ UNCHANGED <<args, environ, env, unit_paths, console, trimming_parameters, env_with_tmpdir,
                   unit, step, command, launched, produced, rv, child, nOut, faults>>

\* classify, lines 176-189
ClassifySetup == args.command = "taxonomy" /\ TmpDirSetup

\* rooted_tree, lines 252-265
RootedTreeSetup == args.command = "tree" /\ TmpDirSetup

Next ==
    \/ PreprocessValidate
    \/ PreprocessSetup
    \/ Popen
    \/ ReadLine
    \/ ReadFault
    \/ ReadEOF
    \/ ChildExit
    \/ ImportReturned
    \/ DemuxReturned
    \/ DenoiseReturned
    \/ TabulateReturned
    \/ SummarizeReturned
    \/ TableExportReturned
    \/ SequencesExportReturned
    \/ QcValidate
    \/ QcSetup
    \/ QcCall
    \/ ClassifyValidate
    \/ ClassifySetup
    \/ RootedTreeValidate
    \/ RootedTreeSetup

Spec == Init /\ [][Next]_vars

(***************************************************************************)
(* taxonomy.qiime_taxa_barplot, lines 44-75, applied to arguments of its   *)
(* own.  classify never comes to its calls of lines 216 and 224 (it ends   *)
(* at line 189), so the function is run here as a caller of the module     *)
(* would run it.                                                           *)
(***************************************************************************)
\* the flag and the f-string of None where the short list belongs
qiime_taxa_barplot_always_flag(qiime_path, table_path, classification_path, output_barplot_path, metadata_file) ==
    <<qiime_path, "taxa", "barplot", "--0-table", Str(table_path),
      "--i-taxonomy", Str(classification_path),
      "--m-metadata-file", Str(metadata_file),
      "--o-visualization", Str(output_barplot_path)>>

qiime_taxa_barplot(qiime_path, table_path, classification_path, output_barplot_path, metadata_file) ==
    IF metadata_file # None
    THEN <<qiime_path, "taxa", "barplot", "--0-table", Str(table_path),
           "--i-taxonomy", Str(classification_path),
           "--m-metadata-file", Str(metadata_file),
           "--o-visualization", Str(output_barplot_path)>>
    ELSE <<qiime_path, "taxa", "barplot", "--0-table", Str(table_path),
           "--i-taxonomy", Str(classification_path),
           "--o-visualization", Str(output_barplot_path)>>

\* the metadata files a caller may pass: none, a name, a path
MetadataFiles == {None, "metadata.tsv", "meta/sample-metadata.tsv"}

BarplotArgs ==
    [command : {"qiime_taxa_barplot"},
     qiime_path : {"qiime", "/opt/bin/qiime"},
     table_path : {"table.qza", "results/table.qza", "t"},
     classification_path : {"taxonomy.qza", "results/classification/taxonomy.qza", "c"},
     output_barplot_path : {"barplot.qzv", "results/classification/barplot.qzv", "b"},
     metadata_file : MetadataFiles]

BarplotInit ==
    /\ args \in BarplotArgs
    /\ fs = {"."}
    /\ environ = AmbientEnviron
    /\ env = <<>>
    /\ pc = "entry"
    /\ ret = [kind |-> "running"]
    /\ console = <<>>
    /\ trimming_parameters = <<>>
    /\ env_with_tmpdir = <<>>
    /\ unit = 0
    /\ unit_paths = <<>>
    /\ step = "none"
    /\ command = <<>>
    /\ launched = <<>>
    /\ produced = <<>>
    /\ rv = <<>>
    /\ child = "none"
    /\ nOut = 0
    /\ faults = 0

\* the call: the list the function returns is kept in command
BarplotCall ==
    /\ pc = "entry"
    /\ args.command = "qiime_taxa_barplot"
    /\ command' = qiime_taxa_barplot(args.qiime_path, args.table_path,
                                     args.classification_path,
                                     args.output_barplot_path, args.metadata_file)
    /\ pc' = "done"
    /\ UNCHANGED <<args, fs, environ, env, unit_paths, ret, console,
                   trimming_parameters, env_with_tmpdir, unit, step, launched,
                   produced, rv, child, nOut, faults>>

BarplotNext == BarplotCall

BarplotSpec == BarplotInit /\ [][BarplotNext]_vars

(***************************************************************************)
(* Progress.  The program is one sequential process, so a statement that   *)
(* can run does run: weak fairness of its statements.  A statement is next *)
(* exactly when the program is neither blocked in the runner's loop        *)
(* (utils.py 41) nor ended, and each statement moves pc; the fairness      *)
(* condition is written with these two facts in place of ENABLED.  That    *)
(* the runner's loop ends is an assumption about the child: a child closes *)
(* its output stream in the end (weak fairness of ReadEOF).                *)
(***************************************************************************)
StatementNext == pc \notin {"read", "done"}

StatementRuns == StatementNext /\ pc' # pc

StatementsFair == []<>(~StatementNext) \/ []<><<StatementRuns>>_vars

LiveSpec == Init /\ [][Next]_vars /\ StatementsFair /\ WF_vars(ReadEOF)

(***************************************************************************)
(* The claims.                                                             *)
(***************************************************************************)
IsPreprocess == args.command = "preprocess"

\* the tuples have been enumerated (line 175 has run)
Enumerated == IsPreprocess /\ trimming_parameters # <<>>

Range(seq) == { seq[i] : i \in DOMAIN seq }

ClaimExample ==
    /\ args.trunc_len_f = <<200, 210>> /\ args.trunc_len_r = <<200, 210>>
    /\ args.trim_left_f = <<10, 10>> /\ args.trim_left_r = <<10, 10>>
    /\ args.trunc_q = <<15, 20>>

\* C1 as stated: the units enumerated are the positional zip of the first
\* four lists crossed with trunc_q, one unit per pair (4 units for the
\* example), never the 5-way product.
C1_PairwiseUnits ==
    Enumerated =>
        /\ Range(trimming_parameters) =
             { <<args.trunc_len_f[k], args.trunc_len_r[k], args.trim_left_f[k],
                 args.trim_left_r[k], args.trunc_q[j]>> :
               k \in 1..Len(args.trunc_len_f), j \in 1..Len(args.trunc_q) }
        /\ Len(trimming_parameters) = Len(args.trunc_len_f) * Len(args.trunc_q)
        /\ (ClaimExample => Len(trimming_parameters) = 4)

\* C1 amended: the units enumerated are the full 5-way product of the lists,
\* one unit per choice of one position in each list, the last list varying
\* fastest and repeated values kept (32 units for the example).
C1_FullProduct ==
    Enumerated =>
        LET nf == Len(args.trunc_len_f)
            nr == Len(args.trunc_len_r)
            mf == Len(args.trim_left_f)
            mr == Len(args.trim_left_r)
            nq == Len(args.trunc_q)
        IN /\ Len(trimming_parameters) = nf * nr * mf * mr * nq
           /\ \A i \in 1..nf, j \in 1..nr, k \in 1..mf, l \in 1..mr, m \in 1..nq :
                trimming_parameters[((((i - 1) * nr + (j - 1)) * mf + (k - 1)) * mr
                                      + (l - 1)) * nq + m]
                = <<args.trunc_len_f[i], args.trunc_len_r[j], args.trim_left_f[k],
                    args.trim_left_r[l], args.trunc_q[m]>>
           /\ (ClaimExample => Len(trimming_parameters) = 32)

\* the example's lists have been enumerated, with a tuple no positional
\* pairing yields among them
C1_Witness ==
    /\ Enumerated
    /\ ClaimExample
    /\ <<200, 210, 10, 10, 15>> \in Range(trimming_parameters)

(***************************************************************************)
(* C2 and C3: a command that cannot be spawned.                            *)
(***************************************************************************)
UnitSteps == <<"dada2", "tabulate", "summarize", "export_table", "export_sequences">>

\* the command ended with the exception Popen raises for a program it
\* cannot execute
SpawnFailed == ret.kind = "raise" /\ ret.exc = "OSError"

\* C2 as stated: with verbose and debug off, when the invocation of unit k
\* cannot be spawned, every other unit of the sweep still has all five of
\* its invocations launched.
C2_FailureIsolated ==
    (IsPreprocess /\ ~Verbosity(args) /\ pc = "done" /\ SpawnFailed /\ unit >= 1) =>
        \A u \in (1..Len(trimming_parameters)) \ {unit} :
            \A s \in Range(UnitSteps) : <<u, s>> \in Range(launched)

\* C3 as stated: with verbose and debug off, a call of the runner whose
\* child cannot be spawned does not raise; it returns to its caller with the
\* failure value.
C3_SpawnFailureReturned ==
    [][(pc = "call" /\ IsPreprocess /\ ~Verbosity(args)
        /\ launched' # launched /\ child' # "running")
       => (pc' = "returned" /\ rv' = <<1>> /\ ret'.kind # "raise")]_vars

(***************************************************************************)
(* C4: the names of two distinct tuples.                                   *)
(***************************************************************************)
\* C4: when a unit starts, the paths filter_and_merge derives for its tuple
\* (three artifacts, two .qzv companions, two export directories) share no
\* path with those of any different tuple among the units before it; so no
\* two different tuples of a sweep share a path.
C4_DisjointPaths ==
    (IsPreprocess /\ pc = "call" /\ step = "dada2") =>
        LET mine == UnitPaths(args.outdir, trimming_parameters[unit])
        IN \A v \in 1..(unit - 1) :
             trimming_parameters[v] # trimming_parameters[unit] =>
                 mine \cap UnitPaths(args.outdir, trimming_parameters[v]) = {}

\* the last unit of a sweep of 32 different tuples starts, among them
\* (1,11,..) and (11,1,..), whose digits run together the same way
C4_Witness ==
    /\ IsPreprocess /\ pc = "call" /\ step = "dada2" /\ unit = 32
    /\ Cardinality(Range(trimming_parameters)) = 32
    /\ \E v, w \in DOMAIN trimming_parameters :
         /\ trimming_parameters[v][1] = 1 /\ trimming_parameters[v][2] = 11
         /\ trimming_parameters[w][1] = 11 /\ trimming_parameters[w][2] = 1

C7_DirectoriesExist ==
    /\ (IsPreprocess /\ pc \in {"call", "read"}) =>
          /\ args.outdir \in fs
          /\ args.tmp_dir \in fs
          /\ step = "export_table" =>
               filtering_table_dir(args.outdir, trimming_parameters[unit]) \in fs
          /\ step = "export_sequences" =>
               filtered_sequences_dir(args.outdir, trimming_parameters[unit]) \in fs
    /\ (args.command = "qc" /\ pc \in {"call", "read"}) =>
          {args.outdir, fastqc_dir(args), multiqc_dir(args)} \subseteq fs

\* the sequences export of the second unit is reading its child, and the
\* export directories of both units exist
C7_Witness ==
    /\ IsPreprocess /\ pc = "read" /\ step = "export_sequences" /\ unit = 2
    /\ \A u \in 1..2 :
         /\ filtering_table_dir(args.outdir, trimming_parameters[u]) \in fs
         /\ filtered_sequences_dir(args.outdir, trimming_parameters[u]) \in fs

(***************************************************************************)
(* C8 and C9: what the commands check before they launch anything.         *)
(***************************************************************************)
\* the input files of a command
RequiredInputs(a) ==
    CASE a.command = "preprocess" -> {a.qiime2_manifest}
      [] a.command = "qc" -> Range(a.input_files)
      [] a.command = "taxonomy" ->
           {a.classifier, a.input_sequences, a.input_table}
           \cup (IF a.metadata = None THEN {} ELSE {a.metadata})
      [] a.command = "tree" -> {a.input_sequences}

\* the executables a command runs
NeededExecutables(a) ==
    IF a.command = "qc" THEN {a.fastqc_path, a.multiqc_path} ELSE {a.qiime_path}

\* C8 as stated: when an input file of the command is missing, the command
\* reaches no call of the runner, launches nothing, and ends by returning 1.
C8_MissingInputExitsOne ==
    (RequiredInputs(args) \ fs # {}) =>
        /\ pc \notin {"call", "read", "returned"}
        /\ launched = <<>>
        /\ pc = "done" => (ret.kind = "return" /\ ret.code = 1)

\* an error line that reports an executable as not found
AbsenceReported ==
    \E i \in DOMAIN console :
        /\ console[i].kind = "error"
        /\ console[i].msg = "could not find qiime2 executable in $PATH"

\* C9 as stated: when an executable of the command is unresolved (None), no
\* call of the runner is reached with it as the program, nothing is
\* launched, and a command whose input files all exist ends having reported
\* the absence.
C9_UnresolvedExecutableDetected ==
    (None \in NeededExecutables(args)) =>
        /\ pc \in {"call", "read", "returned"} => command[1] # Str(None)
        /\ launched = <<>>
        /\ (pc = "done" /\ RequiredInputs(args) \subseteq fs) => AbsenceReported

(***************************************************************************)
(* C10: what the runner forwards when verbose or debug is on.              *)
(***************************************************************************)
\* a line as it stands: its decoded text without the newline that ends it
LineText(line) == SubSeq(Decode(line), 1, Len(Decode(line)) - 1)

\* the runner returns normally from a child that has exited with status 0,
\* with verbose or debug on
ReturnsFromExitZero ==
    /\ pc = "read" /\ pc' = "returned" /\ rv' = <<>>
    /\ child' = "exit0"
    /\ Verbosity(args)

\* C10 as stated: when the runner returns from a child that exited 0, the
\* lines it has printed are exactly the lines the child wrote, each once and
\* in order.
C10_ForwardedExactly ==
    [][ReturnsFromExitZero =>
        LET n == Len(produced)
        IN /\ Len(console') >= n
           /\ \A i \in 1..n :
                console'[Len(console') - n + i] =
                    [kind |-> "line", text |-> LineText(produced[i])]]_vars

\* C10 amended: when the runner returns from a child that exited 0, it has
\* printed one line for each line the child wrote, in order: the UTF-8
\* decoding of the line with leading and trailing whitespace stripped; no
\* other line was printed. A line that is not UTF-8 is not printed: the
\* runner raises UnicodeDecodeError at it.
C10_ForwardedStripped ==
    [][/\ ReturnsFromExitZero =>
            LET n == Len(produced)
            IN /\ Len(console') >= n
               /\ \A i \in 1..n :
                    console'[Len(console') - n + i] =
                        [kind |-> "line", text |-> Strip(Decode(produced[i]))]
               /\ Cardinality({i \in DOMAIN console' : console'[i].kind = "line"}) = nOut
       /\ (pc = "read" /\ Verbosity(args) /\ Len(produced') > Len(produced)
           /\ ~Decodable(produced'[Len(produced')])) =>
            (console' = console /\ ret' = Raise("UnicodeDecodeError"))]_vars

\* the runner has returned from the import, whose child wrote the bytes of
\* U+00E9 and " b " and exited 0; U+00E9 and "b" were printed
C10_Witness ==
    /\ IsPreprocess /\ Verbosity(args)
    /\ pc = "returned" /\ rv = <<>> /\ child = "exit0" /\ Len(launched) = 1
    /\ Len(console) >= 2
    /\ console[Len(console) - 1] = [kind |-> "line", text |-> <<233>>]
    /\ console[Len(console)] = [kind |-> "line", text |-> <<98>>]

(***************************************************************************)
(* C11: a SubprocessError caught while the child's output is read.         *)
(***************************************************************************)
\* the except clause of the runner is entered
FaultCaught == pc = "read" /\ faults' = faults + 1

\* C11: when the except clause is entered with verbose or debug on, the
\* SubprocessError is raised to the caller and nothing is printed; with both
\* off, one line is appended to the console, an error line naming
\* command[0], and the runner returns 1, which is not the value (None) it
\* returns at the end of the stream.
C11_FaultRaisedOrReported ==
    [][/\ FaultCaught =>
            IF Verbosity(args)
            THEN /\ ret' = Raise("SubprocessError")
                 /\ pc' = "done"
                 /\ console' = console
            ELSE /\ Len(console') = Len(console) + 1
                 /\ SubSeq(console', 1, Len(console)) = console
                 /\ console'[Len(console')].kind = "error"
                 /\ console'[Len(console')].what = command[1]
                 /\ rv' = <<1>>
                 /\ pc' = "returned"
                 /\ ret' = ret
       /\ (pc = "read" /\ pc' = "returned" /\ faults' = faults) => rv' = <<>>]_vars

\* with verbose and debug off, the runner has returned 1 from the dada2
\* invocation of a unit, the last line of the console naming qiime
C11_Witness ==
    /\ IsPreprocess /\ ~Verbosity(args)
    /\ pc = "returned" /\ step = "dada2" /\ rv = <<1>>
    /\ console # <<>>
    /\ console[Len(console)].kind = "error"
    /\ console[Len(console)].what = args.qiime_path
    /\ args.qiime_path # command[Len(command)]

(***************************************************************************)
(* C12: the tokens of the dada2 command.                                   *)
(***************************************************************************)
\* seq has the tokens of run next to each other, in order
ContainsRun(seq, run) ==
    \E i \in 1..(Len(seq) - Len(run) + 1) : SubSeq(seq, i, i + Len(run) - 1) = run

\* the dada2 command of the tuple (200, 180, 10, 5, 15) has been built
DadaExample ==
    /\ IsPreprocess /\ pc = "call" /\ step = "dada2"
    /\ trimming_parameters[unit] = <<200, 180, 10, 5, 15>>

\* C12 as stated: the dada2 command of (200, 180, 10, 5, 15) contains the
\* run --p-trunc-len-f 200 --p-trunc-len-r 180 --p-trim-left-f 10
\* --p-trim-left-r 5 --p-trunc-q 15; every dada2 command ends with --verbose
\* when verbose is on and holds no --verbose when it is off.
C12_RunOfFiveOptions ==
    /\ DadaExample =>
         ContainsRun(command,
             <<"--p-trunc-len-f", "200", "--p-trunc-len-r", "180",
               "--p-trim-left-f", "10", "--p-trim-left-r", "5",
               "--p-trunc-q", "15">>)
    /\ (IsPreprocess /\ pc = "call" /\ step = "dada2") =>
         IF args.verbose THEN command[Len(command)] = "--verbose"
         ELSE "--verbose" \notin Range(command)

\* C12 amended: the dada2 command of (200, 180, 10, 5, 15) contains the run
\* --p-trunc-len-f 200 --p-trunc-len-r 180 --p-trim-left-f 10
\* --p-trim-left-r 5 --p-chimera-method consensus --p-trunc-q 15, the
\* chimera option standing between the last two of the claim; every dada2
\* command holds the decimal numbers of its tuple at these places, ends with
\* --verbose when verbose is on and holds no --verbose when it is off.
C12_OptionsWithChimeraBetween ==
    /\ DadaExample =>
         ContainsRun(command,
             <<"--p-trunc-len-f", "200", "--p-trunc-len-r", "180",
               "--p-trim-left-f", "10", "--p-trim-left-r", "5",
               "--p-chimera-method", "consensus", "--p-trunc-q", "15">>)
    /\ (IsPreprocess /\ pc = "call" /\ step = "dada2") =>
         /\ SubSeq(command, 6, 17) =
              <<"--p-trunc-len-f", IntToStr(trimming_parameters[unit][1]),
                "--p-trunc-len-r", IntToStr(trimming_parameters[unit][2]),
                "--p-trim-left-f", IntToStr(trimming_parameters[unit][3]),
                "--p-trim-left-r", IntToStr(trimming_parameters[unit][4]),
                "--p-chimera-method", "consensus",
                "--p-trunc-q", IntToStr(trimming_parameters[unit][5])>>
         /\ IF args.verbose THEN command[Len(command)] = "--verbose"
            ELSE "--verbose" \notin Range(command)

\* the dada2 command of (200, 180, 10, 5, 15) has been built with verbose on
C12_Witness ==
    /\ DadaExample
    /\ args.verbose
    /\ command[Len(command)] = "--verbose"
    /\ Len(command) = 24

(***************************************************************************)
(* C13: the environment of the sweep.                                      *)
(***************************************************************************)
\* C13: os.environ keeps its ambient value; the mapping preprocess builds
\* is another mapping, with the variables of the ambient environment at
\* their ambient values except TMPDIR, and has this one value from the time
\* it is built; every call of the runner, for the setup commands and for
\* the units, is given that mapping.
C13_SharedEnvironment ==
    /\ environ = AmbientEnviron
    /\ (IsPreprocess /\ env_with_tmpdir # <<>>) =>
          /\ env_with_tmpdir # environ
          /\ DOMAIN env_with_tmpdir = DOMAIN AmbientEnviron \cup {"TMPDIR"}
          /\ \A k \in DOMAIN AmbientEnviron \ {"TMPDIR"} :
                env_with_tmpdir[k] = AmbientEnviron[k]
          /\ env_with_tmpdir["TMPDIR"] # AmbientEnviron["TMPDIR"]
          /\ env_with_tmpdir = new_tmp_dir_env(args.tmp_dir, AmbientEnviron)
    /\ (IsPreprocess /\ launched # <<>>) =>
          /\ env_with_tmpdir # <<>>
          /\ env = env_with_tmpdir

\* the table export of the second unit was given the mapping, after the
\* setup commands and the first unit
C13_Witness ==
    /\ IsPreprocess /\ pc = "read" /\ unit = 2 /\ step = "export_table"
    /\ env = env_with_tmpdir
    /\ env["PATH"] = "/usr/bin"
    /\ environ["TMPDIR"] = "/tmp"

(***************************************************************************)
(* C14: the two invocations of quality_control.                            *)
(***************************************************************************)
\* C14 as stated: quality_control, given input files that all exist (and
\* both executables resolved), builds
\* the fastqc command with --nogroup --threads N, the input files and
\* --outdir with the fastqc directory, and ends having launched fastqc and
\* then multiqc, returning 0.
C14_QcLaunchesBoth ==
    (/\ args.command = "qc"
     /\ args.input_files # <<>> /\ Range(args.input_files) \subseteq fs
     /\ None \notin NeededExecutables(args)) =>
        /\ pc = "call" =>
             SubSeq(command, 2, Len(command)) =
                 <<"--nogroup", "--threads", IntToStr(args.threads)>>
                 \o args.input_files \o <<"--outdir", fastqc_dir(args)>>
        /\ pc = "done" =>
             /\ ret.kind = "return" /\ ret.code = 0
             /\ launched = <<<<0, "fastqc">>, <<0, "multiqc">>>>

(***************************************************************************)
(* C15: the names of the export directories.                               *)
(***************************************************************************)
\* the five numbers of the current unit's tuple, joined by "_"
UnitSuffix ==
    LET t == trimming_parameters[unit]
    IN IntToStr(t[1]) \o "_" \o IntToStr(t[2]) \o "_" \o IntToStr(t[3]) \o "_"
       \o IntToStr(t[4]) \o "_" \o IntToStr(t[5])

\* filter_and_merge has made its two directories and goes on to the exports
ExportDirsCreated ==
    /\ IsPreprocess /\ pc = "returned" /\ step = "summarize"
    /\ pc' = "call"

\* C15 as stated: the two directories a unit creates are
\* <outdir>/filtering_stats_<suffix> and <outdir>/filtered_reads_<suffix>.
C15_DirsNamedAfterStats ==
    [][ExportDirsCreated =>
        fs' \ fs = { Join(args.outdir, "filtering_stats_" \o UnitSuffix),
                     Join(args.outdir, "filtered_reads_" \o UnitSuffix) }]_vars

\* C15 amended: the two directories a unit creates are
\* <outdir>/filtering_table_<suffix>, the stem of its table artifact, and
\* <outdir>/filtered_reads_<suffix>, the stem of its sequences artifact; they
\* are the output paths of the table export and of the sequences export.
C15_DirsNamedAfterTable ==
    [][/\ ExportDirsCreated =>
            /\ fs' \ fs = { Join(args.outdir, "filtering_table_" \o UnitSuffix),
                            Join(args.outdir, "filtered_reads_" \o UnitSuffix) }
            /\ command'[Len(command')] =
                   Join(args.outdir, "filtering_table_" \o UnitSuffix)
       /\ (IsPreprocess /\ pc = "returned" /\ step = "export_table" /\ pc' = "call") =>
            command'[Len(command')] =
                Join(args.outdir, "filtered_reads_" \o UnitSuffix)]_vars

\* the second unit, of the tuple (1, 11, 0, 10, 20), has made its two
\* directories and is at its table export
C15_Witness ==
    /\ IsPreprocess /\ pc = "call" /\ step = "export_table" /\ unit = 2
    /\ "results/qiime2/filtering_table_1_11_0_10_20" \in fs
    /\ "results/qiime2/filtered_reads_1_11_0_10_20" \in fs
    /\ "results/qiime2/filtering_stats_1_11_0_10_20" \notin fs

(***************************************************************************)
(* C16: the names computed twice.                                          *)
(***************************************************************************)
\* filter_and_merge is entered for a unit whose tuple is that of the unit
\* before it
SameTupleAgain ==
    /\ IsPreprocess /\ pc = "returned" /\ step = "export_sequences"
    /\ unit' = unit + 1
    /\ trimming_parameters[unit + 1] = trimming_parameters[unit]

UnitsInExecution ==
    (IF IsPreprocess /\ unit >= 1 /\ pc # "done" THEN {unit} ELSE {})
    \cup (IF IsPreprocess /\ child = "running" /\ launched # <<>>
             /\ launched[Len(launched)][1] >= 1
          THEN {launched[Len(launched)][1]} ELSE {})

\* C17: with threads >= 1, never more than args.threads units are in
\* execution; the loop of lines 306-307 runs them one after the other, so
\* never more than one is.
C17_AtMostThreadsUnits ==
    (IsPreprocess /\ args.threads >= 1) =>
        /\ Cardinality(UnitsInExecution) <= args.threads
        /\ Cardinality(UnitsInExecution) <= 1

\* with one worker allowed, the second unit is in execution, reading the
\* child of its dada2 command, after the first unit has ended
C17_Witness ==
    /\ IsPreprocess /\ args.threads = 1
    /\ pc = "read" /\ unit = 2 /\ step = "dada2" /\ child = "running"
    /\ UnitsInExecution = {2}
    /\ launched[7] = <<1, "export_sequences">>

(***************************************************************************)
(* C18: the runner and the lifetime of the child.                          *)
(***************************************************************************)
Terminated == {"exit0", "exit1"}

\* C18 as stated: when the runner returns normally, the child it spawned
\* has terminated; and a command is launched only when the child of the
\* command before it has terminated.
C18_ChildTerminatedAtReturn ==
    [][/\ (pc = "read" /\ pc' = "returned" /\ rv' = <<>>) => child' \in Terminated
       /\ (launched' # launched /\ launched # <<>>) => child \in Terminated]_vars

(***************************************************************************)
(* C19: a sweep into an output directory that holds the export directories *)
(* of its first unit.                                                      *)
(***************************************************************************)
\* the launches of the setup commands and of the first three commands of
\* the first unit
UpToFirstSummarize ==
    <<<<0, "import">>, <<0, "demux">>, <<1, "dada2">>, <<1, "tabulate">>,
      <<1, "summarize">>>>

\* filter_and_merge of the first unit comes to its mkdir calls, and both
\* directories exist
FirstUnitFindsItsDirs ==
    /\ IsPreprocess /\ pc = "returned" /\ step = "summarize" /\ unit = 1
    /\ pc' # "returned"
    /\ filtering_table_dir(args.outdir, trimming_parameters[1]) \in fs
    /\ filtered_sequences_dir(args.outdir, trimming_parameters[1]) \in fs

\* C19: when the first unit comes to create its export directories and
\* both exist, preprocess ends there with FileExistsError: the import, the
\* demux summary and the unit's dada2, tabulate and summarize commands have
\* been launched and nothing else, no directory is made, and nothing is
\* launched afterwards.
C19_FaultsAtFirstMkdir ==
    [][/\ FirstUnitFindsItsDirs =>
            /\ pc' = "done"
            /\ ret' = Raise("FileExistsError")
            /\ launched' = UpToFirstSummarize
            /\ fs' = fs
       /\ (IsPreprocess /\ pc = "done") => (pc' = "done" /\ launched' = launched)]_vars

\* a sweep has ended with FileExistsError in its first unit, after five
\* launches, with the unit's sequence directory in the output directory
C19_Witness ==
    /\ IsPreprocess /\ pc = "done" /\ unit = 1
    /\ ret = Raise("FileExistsError")
    /\ launched = UpToFirstSummarize
    /\ trimming_parameters[1] # trimming_parameters[2]
    /\ filtered_sequences_dir(args.outdir, trimming_parameters[1]) \in fs

(***************************************************************************)
(* C20: a child that exits with a non-zero status.                         *)
(***************************************************************************)
\* the runner call returns at the end of the stream, no fault having been
\* raised, and the child has exited with a non-zero status
ReturnsFromExitOne ==
    /\ IsPreprocess /\ pc = "read" /\ pc' = "returned"
    /\ faults' = faults /\ child' = "exit1"

\* C20: a runner call whose child exited with a non-zero status, no fault
\* raised, returns None (the value it returns for exit status 0) and prints
\* no line; and after a call that returned None for such a child the program
\* goes on as after any other: to the next call site (of the unit, or of the
\* next unit), to the end of the sweep with 0, or to the mkdir fault that
\* follows the summarize call.
C20_NonZeroExitIgnored ==
    [][/\ ReturnsFromExitOne =>
            /\ rv' = <<>> /\ console' = console /\ ret' = ret
            /\ launched' = launched
       /\ (IsPreprocess /\ pc = "returned" /\ child = "exit1" /\ rv = <<>>
           /\ pc' # "returned") =>
            \/ /\ pc' = "call" /\ ret' = ret
               /\ \/ step # "export_sequences" /\ step' = StepAfter(step)
                                               /\ unit' = IF step = "demux" THEN 1 ELSE unit
                  \/ step = "export_sequences" /\ step' = "dada2"
                                               /\ unit' = unit + 1
            \/ /\ step = "export_sequences" /\ unit = Len(trimming_parameters)
               /\ pc' = "done" /\ ret' = Return(0)
            \/ /\ step = "summarize" /\ pc' = "done"
               /\ ExportDirsFault(fs, args, trimming_parameters[unit]) # None]_vars

\* the dada2 command of the second unit exited with a non-zero status, no
\* fault was raised in the run, and the unit is at its tabulate call
C20_Witness ==
    /\ IsPreprocess /\ pc = "call" /\ step = "tabulate" /\ unit = 2
    /\ child = "exit1" /\ rv = <<>> /\ faults = 0
    /\ ret.kind = "running"

(***************************************************************************)
(* C21: the exit code of a sweep one of whose invocations failed.          *)
(***************************************************************************)
\* the value the runner returns for a fault it caught
RunnerFailure == <<1>>

\* the runner has returned 1 at least once in this run: faults are counted
\* where SubprocessError is raised, and at low verbosity each is caught
ReportedFailure == IsPreprocess /\ ~Verbosity(args) /\ faults > 0

\* C21: at low verbosity the runner's returning 1 leaves preprocess running,
\* and when the last invocation of the sweep has returned after some
\* invocation was reported failed, preprocess returns 0.
C21_ExitZeroAfterFailure ==
    [][/\ (IsPreprocess /\ ~Verbosity(args) /\ pc = "read" /\ faults' # faults) =>
            (rv' = RunnerFailure /\ pc' = "returned" /\ ret' = ret)
       /\ (ReportedFailure /\ pc = "returned" /\ step = "export_sequences"
           /\ unit = Len(trimming_parameters) /\ pc' # "returned") =>
            (pc' = "done" /\ ret' = Return(0))]_vars

\* a sweep of 32 units has returned 0 although its last invocation was
\* reported failed
C21_Witness ==
    /\ ReportedFailure /\ pc = "done" /\ ret = Return(0)
    /\ unit = 32 /\ rv = RunnerFailure
    /\ Len(launched) = 2 + 5 * 32

(***************************************************************************)
(* C22: the child's lines at low verbosity.                                *)
(***************************************************************************)
\* the runner has read one more line of the child
LineRead == IsPreprocess /\ pc = "read" /\ nOut' = nOut + 1

\* the console has received a forwarded line
LineForwarded ==
    /\ Len(console') = Len(console) + 1
    /\ console'[Len(console')].kind = "line"

\* C22: with verbose and debug both off a line read from the child leaves
\* the console as it was; a forwarded line reaches the console only when
\* verbose or debug is on.
C22_QuietWhenNotVerbose ==
    [][/\ (LineRead /\ ~args.verbose /\ ~args.debug) => console' = console
       /\ LineForwarded => (args.verbose \/ args.debug)]_vars

\* a child of a run with both flags off has written two lines, and the
\* console holds no forwarded line
C22_Witness ==
    /\ IsPreprocess /\ ~args.verbose /\ ~args.debug
    /\ pc = "read" /\ Len(produced) = 2
    /\ \A i \in DOMAIN console : console[i].kind # "line"

(***************************************************************************)
(* C23: no invocation is launched twice.                                   *)
(***************************************************************************)
\* C23: every launch of a run of preprocess is the launch of a command that
\* was not launched before in the run, failed or not: the command of a
\* setup call site, or of a call site of the unit in execution.
C23_LaunchedAtMostOnce ==
    [][(IsPreprocess /\ launched' # launched) =>
          /\ launched' = Append(launched, <<unit, step>>)
          /\ \A i \in DOMAIN launched : launched[i] # <<unit, step>>]_vars

\* the runner reported the dada2 command of the second unit failed, and
\* the next launch of the run is the unit's tabulate command
C23_Witness ==
    /\ IsPreprocess /\ pc = "read" /\ unit = 2 /\ step = "tabulate"
    /\ rv = <<1>> /\ faults = 1
    /\ launched[Len(launched)] = <<2, "tabulate">>
    /\ launched[Len(launched) - 1] = <<2, "dada2">>

(***************************************************************************)
(* C24: no timeout, no cancellation.                                       *)
(***************************************************************************)
\* the child's output stream is open
StreamOpen == child = "running"

\* the runner leaves its loop only at the end of the child's stream or by a
\* fault, and nothing is launched while a child's stream is open
NoTimeout ==
    [][/\ (IsPreprocess /\ pc = "read" /\ pc' # "read") =>
              \/ child' # "running"
              \/ faults' # faults
              \/ ret'.kind = "raise"
       /\ (IsPreprocess /\ launched' # launched) => ~StreamOpen]_vars

\* C24: the runner returns only when the child's stream has ended (or a
\* fault was raised), and until then nothing else is launched; and when
\* every child closes its stream, preprocess ends: it returns, unless a
\* fault was raised.
C24_BlocksUntilStreamEnds ==
    /\ NoTimeout
    /\ IsPreprocess => <>(pc = "done" /\ (ret.kind = "return" \/ ret.kind = "raise"))
    /\ [](IsPreprocess /\ pc = "done" /\ ret.kind = "return" /\ launched # <<>>
          => ret = Return(0))

\* every child of a sweep of 32 units has closed its stream, no fault was
\* raised, and preprocess has returned
C24_Witness ==
    /\ IsPreprocess /\ pc = "done" /\ ret = Return(0)
    /\ faults = 0 /\ nOut = MaxOut /\ ~StreamOpen
    /\ Len(launched) = 2 + 5 * 32

(***************************************************************************)
(* C25: the value of TMPDIR in the mapping new_tmp_dir_env returns.        *)
(***************************************************************************)
\* C25: in the mapping preprocess got from new_tmp_dir_env, TMPDIR is the
\* resolved path of the scratch directory it was called with, and every
\* other variable has its ambient value.
C25_TmpdirIsResolvedPath ==
    (IsPreprocess /\ env_with_tmpdir # <<>>) =>
        /\ env_with_tmpdir[TmpdirVar] = Resolve(args.tmp_dir)
        /\ \A k \in DOMAIN environ \ {TmpdirVar} : env_with_tmpdir[k] = environ[k]

(***************************************************************************)
(* C26: qiime_taxa_barplot without a metadata file.                        *)
(***************************************************************************)
\* a token list without its eighth and ninth tokens
WithoutMetadataTokens(tokens) == SubSeq(tokens, 1, 7) \o SubSeq(tokens, 10, Len(tokens))

\* the call of qiime_taxa_barplot has returned
BarplotReturned == args.command = "qiime_taxa_barplot" /\ pc = "done"

\* C26: the list returned for metadata_file = None has nine tokens, and the
\* list returned for the same other arguments with a metadata file m is
\* that list with the two tokens --m-metadata-file, m put in before
\* --o-visualization; the list returned for a metadata file carries these
\* two tokens at that place and is otherwise the list returned for None.
C26_ShorterWithoutMetadata ==
    BarplotReturned =>
        IF args.metadata_file = None
        THEN /\ Len(command) = 9
             /\ \A m \in MetadataFiles \ {None} :
                  LET with == qiime_taxa_barplot(args.qiime_path, args.table_path,
                                                 args.classification_path,
                                                 args.output_barplot_path, m)
                  IN /\ with[8] = "--m-metadata-file" /\ with[9] = m
                     /\ WithoutMetadataTokens(with) = command
        ELSE /\ command[8] = "--m-metadata-file"
             /\ command[9] = args.metadata_file
             /\ WithoutMetadataTokens(command) =
                  qiime_taxa_barplot(args.qiime_path, args.table_path,
                                     args.classification_path,
                                     args.output_barplot_path, None)

\* the function has returned its list for a call without a metadata file
C26_Witness ==
    /\ BarplotReturned /\ args.metadata_file = None
    /\ command = <<"qiime", "taxa", "barplot", "--0-table", "table.qza",
                   "--i-taxonomy", "taxonomy.qza", "--o-visualization", "barplot.qzv">>

(***************************************************************************)
(* C27: repeated tuples in one sweep.                                      *)
(***************************************************************************)
\* C27: the list of tuples preprocess runs has no tuple twice, and no unit
\* after the first ends the sweep with FileExistsError at an export
\* directory that an earlier unit of the sweep made.
C27_NoTupleTwice ==
    IsPreprocess =>
        /\ \A v, w \in DOMAIN trimming_parameters :
              v # w => trimming_parameters[v] # trimming_parameters[w]
        /\ ~(/\ pc = "done" /\ unit > 1
             /\ ret = Raise("FileExistsError")
             /\ \E v \in 1..(unit - 1) :
                  trimming_parameters[v] = trimming_parameters[unit])

(***************************************************************************)
(* C28: a unit after a call the runner reported failed.                    *)
(***************************************************************************)
\* the five calls of filter_and_merge in the order of the program text
\* (lines 241, 257, 263, 286, 292)
UnitCallOrder == <<"dada2", "tabulate", "summarize", "export_table", "export_sequences">>

\* the call that follows call s of a unit
NextInUnit(s) == UnitCallOrder[(CHOOSE i \in 1..4 : UnitCallOrder[i] = s) + 1]

\* the command of call s of the unit of tuple t
UnitCommand(s, a, t) ==
    CASE s = "dada2" -> dada2_command(a, t)
      [] s = "tabulate" -> filtering_stats_command(a, t)
      [] s = "summarize" -> table_visualiztion_command(a, t)
      [] s = "export_table" -> table_export_command(a, t)
      [] s = "export_sequences" -> sequences_export_command(a, t)

\* a call of a unit, not its last, has returned 1 and filter_and_merge goes on
FailedCallLeft ==
    /\ IsPreprocess /\ pc = "returned" /\ rv = <<1>>
    /\ step \in {"dada2", "tabulate", "summarize", "export_table"}
    /\ pc' # "returned"

\* C28: after a call of a unit that returned 1, filter_and_merge goes to the
\* next call of the same unit, with the command it builds for that call from
\* the arguments and the unit's tuple; the one other way on is the exception
\* of the mkdir calls between summarize and the exports, which does not come
\* from the value returned.
C28_UnitGoesOnAfterFailure ==
    [][FailedCallLeft =>
          \/ /\ pc' = "call" /\ unit' = unit /\ ret' = ret
             /\ step' = NextInUnit(step)
             /\ command' = UnitCommand(NextInUnit(step), args, trimming_parameters[unit])
          \/ /\ step = "summarize" /\ pc' = "done" /\ ret'.kind = "raise"
             /\ ExportDirsFault(fs, args, trimming_parameters[unit]) # None]_vars

\* the summarize call of the first unit returned 1; the export directories
\* are made and the table export is about to be launched
C28_Witness ==
    /\ IsPreprocess /\ pc = "call" /\ unit = 1 /\ step = "export_table"
    /\ rv = <<1>>
    /\ launched[Len(launched)] = <<1, "summarize">>
    /\ command = table_export_command(args, trimming_parameters[1])

(***************************************************************************)
(* C29: what preprocess has done when it returns 1.                        *)
(***************************************************************************)
\* preprocess returns 1
ReturnsOne == IsPreprocess /\ ret # Return(1) /\ ret' = Return(1)

\* C29: preprocess returns 1 only as its first step, for an unresolved
\* executable or a missing manifest, and on that step the file system is
\* left as it was found, no environment mapping is built and nothing is
\* launched; and nothing of this changes once preprocess has ended.
C29_NothingChangedOnConfigError ==
    [][/\ ReturnsOne =>
            /\ pc = "entry" /\ pc' = "done"
            /\ args.qiime_path = None \/ args.qiime2_manifest \notin fs
            /\ fs' = fs /\ fs \in InitialFs(args)
            /\ env_with_tmpdir' = <<>> /\ env' = <<>> /\ environ' = AmbientEnviron
            /\ launched' = <<>> /\ child' = "none"
       /\ (IsPreprocess /\ pc = "done") =>
            /\ fs' = fs /\ env_with_tmpdir' = env_with_tmpdir
            /\ launched' = launched /\ ret' = ret]_vars

\* preprocess has returned 1 for a missing manifest, with neither the output
\* directory nor the temp directory in the file system
C29_Witness ==
    /\ IsPreprocess /\ pc = "done" /\ ret = Return(1)
    /\ args.qiime_path # None /\ args.qiime2_manifest \notin fs
    /\ args.outdir \notin fs /\ args.tmp_dir \notin fs
    /\ env_with_tmpdir = <<>> /\ launched = <<>>

(***************************************************************************)
(* C30: the taxonomy and tree commands with everything in place.           *)
(***************************************************************************)
\* the executable is resolved, the input files exist, and so do the output
\* and temp directories
TaxonomyReady ==
    /\ args.command = "taxonomy" /\ args.qiime_path # None
    /\ {args.classifier, args.input_sequences, args.input_table, "metadata.tsv"} \subseteq fs
    /\ {args.outdir, args.tmp_dir} \subseteq fs

TreeReady ==
    /\ args.command = "tree" /\ args.qiime_path # None
    /\ args.input_sequences \in fs
    /\ {args.outdir, args.tmp_dir} \subseteq fs

\* the call sites of the launches made so far
LaunchedSites == [i \in DOMAIN launched |-> launched[i][2]]

\* C30: with everything in place neither command ends with an exception
\* before its first launch; taxonomy ends with 0 after classify-sklearn,
\* metadata tabulate and taxa barplot, tree with 0 after mafft, mask,
\* fasttree and midpoint-root.
C30_TaxonomyAndTreeRun ==
    /\ (TaxonomyReady /\ pc = "done") =>
          /\ ret = Return(0)
          /\ LaunchedSites = <<"classify", "tabulate", "barplot">>
    /\ (TreeReady /\ pc = "done") =>
          /\ ret = Return(0)
          /\ LaunchedSites = <<"mafft", "mask", "fasttree", "midpoint_root">>

====
